---- MODULE Spec2Model ----
(***************************************************************************)
(* A model of nd300.py, the driver of the ND-300CM/KM bill dispenser:      *)
(* the code registry (Command, Status, _Sender), the 6-byte frame codec    *)
(* (Message.to_bytes, Message.from_bytes, Message._validate) and the       *)
(* Connection that sends commands, reads responses and polls a payout.     *)
(*                                                                         *)
(* Python values are represented as follows.                               *)
(*   - an Enum member is the string of its name; its value is looked up in *)
(*     CommandValue, StatusValue or SenderValue;                           *)
(*   - `data` is << >> for None and <<i>> for the integer i;               *)
(*   - a bytes object is a sequence of integers 0..255;                    *)
(*   - a str of hexadecimal text is a sequence of one-character strings;   *)
(*   - a raised exception is the `err` field of a result. Every decode     *)
(*     and transport failure of the code is a ValueError; the model names  *)
(*     each one after the statement that raises it.                        *)
(***************************************************************************)
EXTENDS Integers, Sequences, FiniteSets, TLC

VARIABLES
    op,           \* the operation called last (or in progress)
    pc,           \* "idle", "read", "check", "returned" or "raised"
    arg_command,  \* the call's command_or_status argument
    arg_data,     \* the call's data / quantity argument
    arg_bytes,    \* the call's bytes_ argument
    written,      \* the byte strings passed to serial.write during the call
    rxLog,        \* the byte strings returned by serial.read during the call
    command,      \* the local `command` of payout and status
    response,     \* the local `response` of payout and status
    result,       \* what the call returned, or the exception it raised
    pending,      \* the bytes waiting in the receive buffer of the serial port
    history       \* TRUE: written and rxLog keep every entry of the call;
                  \* FALSE: they keep the last one only

vars == <<op, pc, arg_command, arg_data, arg_bytes, written, rxLog,
          command, response, result, pending, history>>

----------------------------------------------------------------------------
(* Bounds and input sets *)

\* Integers offered as `data`: every byte, its two neighbours, and values
\* whose hexadecimal text has 3, 4 and 5 digits.
DataValues == (-1 .. 256) \cup {4096, 65535, 65536}

None == << >>

Some(i) == <<i>>

\* Every `data` argument: None or an integer.
DataArgs == {None} \cup {Some(i) : i \in DataValues}

Byte == 0 .. 255

----------------------------------------------------------------------------
(* The registry: _Sender, Command, Status, _commands_data_types *)

SenderValue == [user |-> 16, machine |-> 1]

CommandValue ==
    [SINGLE_MACHINE_PAYOUT    |-> 16,
     REQUEST_MACHINE_STATUS   |-> 17,
     RESET_DISPENSER          |-> 18,
     MULTIPLE_MACHINES_PAYOUT |-> 19]

StatusValue ==
    [PAYOUT_SUCCESSFUL |-> 170,
     PAYOUT_FAILS      |-> 187,
     STATUS_FINE       |-> 0,
     EMPTY_NOTE        |-> 1,
     STOCK_LESS        |-> 2,
     NOTE_JAM          |-> 3,
     OVER_LENGTH       |-> 4,
     NOTE_NOT_EXIT     |-> 5,
     SENSOR_ERROR      |-> 6,
     DOUBLE_NOTE_ERROR |-> 7,
     MOTOR_ERROR       |-> 8,
     DISPENSING_BUSY   |-> 9,
     SENSOR_ADJUSTING  |-> 10,
     CHECKSUM_ERROR    |-> 11,
     LOW_POWER_ERROR   |-> 12]

Command == DOMAIN CommandValue

Status == DOMAIN StatusValue

Codes == Command \cup Status

NoCode == "NONE"

\* member.value
value(c) == IF c \in Command THEN CommandValue[c] ELSE StatusValue[c]

\* Command.sender / Status.sender
sender(c) == IF c \in Command THEN "user" ELSE "machine"

commands_data_types ==
    [SINGLE_MACHINE_PAYOUT    |-> "int",
     REQUEST_MACHINE_STATUS   |-> "None",
     RESET_DISPENSER          |-> "None",
     MULTIPLE_MACHINES_PAYOUT |-> "int"]

\* Command.data_type / Status.data_type
data_type(c) == IF c \in Command THEN commands_data_types[c] ELSE "int"

\* is_user_command answering True for every code.
is_user_command_Always(c) == c \in Codes

\* _CommandOrStatus.is_user_command
is_user_command(c) == c \in Command

\* from_byte without the fallback to Status.
from_byte_CommandOnly(v) ==
    IF \E c \in Command : CommandValue[c] = v
    THEN [err |-> "none", command |-> CHOOSE c \in Command : CommandValue[c] = v]
    ELSE [err |-> "UnknownCode", command |-> NoCode]

\* _CommandOrStatus.from_byte: Command(value), and on its ValueError
\* Status(value), whose ValueError is not caught.
from_byte(v) ==
    IF \E c \in Command : CommandValue[c] = v
    THEN [err |-> "none", command |-> CHOOSE c \in Command : CommandValue[c] = v]
    ELSE IF \E s \in Status : StatusValue[s] = v
    THEN [err |-> "none", command |-> CHOOSE s \in Status : StatusValue[s] = v]
    ELSE [err |-> "UnknownCode", command |-> NoCode]

----------------------------------------------------------------------------
(* Messages *)

NoMessage == [command |-> NoCode, data |-> None]

Msg(c, d) == [command |-> c, data |-> d]

\* validate with `self.data is None or isinstance(...)` for its condition.
validate_NoneAlwaysPasses(c, d) ==
    IF d = None THEN "none"
    ELSE IF data_type(c) = "None" THEN "DataArityMismatch"
    ELSE "none"

\* Message._validate. `self.data is None and expected is None` is tried
\* first; otherwise isinstance(self.data, expected) decides, and
\* isinstance itself raises TypeError when expected is None. Both that
\* TypeError and the one the method raises are the construction failure.
validate(c, d) ==
    LET expected_data_type == data_type(c)
    IN  IF d = None /\ expected_data_type = "None" THEN "none"
        ELSE IF expected_data_type = "None" THEN "DataArityMismatch"
        ELSE IF d # None THEN "none"
        ELSE "DataArityMismatch"

\* Message.__init__
MessageInit(c, d) ==
    LET e == validate(c, d)
    IN  [err |-> e, message |-> IF e = "none" THEN Msg(c, d) ELSE NoMessage]

----------------------------------------------------------------------------
(* Hexadecimal text, as to_bytes builds and parses it *)

HexChars == <<"0", "1", "2", "3", "4", "5", "6", "7",
              "8", "9", "A", "B", "C", "D", "E", "F">>

IsHexChar(ch) == \E k \in 1 .. 16 : HexChars[k] = ch

HexCharValue(ch) == (CHOOSE k \in 1 .. 16 : HexChars[k] = ch) - 1

RECURSIVE HexDigits(_)
\* The upper-case hexadecimal digits of n >= 0, most significant first.
HexDigits(n) ==
    IF n < 16 THEN <<HexChars[n + 1]>>
    ELSE Append(HexDigits(n \div 16), HexChars[(n % 16) + 1])

\* format(i, '02X'): zero-padded to a width of 2, the sign counted in the
\* width and never truncated.
Format02X(i) ==
    IF i < 0 THEN <<"-">> \o HexDigits(-i)
    ELSE IF i < 16 THEN <<"0">> \o HexDigits(i)
    ELSE HexDigits(i)

RECURSIVE HexPairs(_)
HexPairs(s) ==
    IF Len(s) = 0 THEN << >>
    ELSE <<16 * HexCharValue(s[1]) + HexCharValue(s[2])>>
         \o HexPairs(SubSeq(s, 3, Len(s)))

\* bytes.fromhex: ValueError unless the text is pairs of hexadecimal digits.
fromhex(s) ==
    IF (\A k \in 1 .. Len(s) : IsHexChar(s[k])) /\ Len(s) % 2 = 0
    THEN [err |-> "none", bytes |-> HexPairs(s)]
    ELSE [err |-> "FromHexError", bytes |-> << >>]

\* _int_to_bytes: int.to_bytes(i, 1), OverflowError outside 0..255.
int_to_bytes(i) ==
    IF i \in Byte THEN [err |-> "none", bytes |-> <<i>>]
    ELSE [err |-> "OverflowError", bytes |-> << >>]

----------------------------------------------------------------------------
(* The frame codec *)

MESSAGE_LENGTH == 6

RECURSIVE Sum(_)
Sum(s) == IF Len(s) = 0 THEN 0 ELSE s[1] + Sum(Tail(s))

\* compute_checksum without the reduction modulo 256.
compute_checksum_NoModulo(bytes) == Sum(bytes)

\* compute_checksum reduced modulo 255.
compute_checksum_Mod255(bytes) == Sum(bytes) % 255

\* Message._compute_checksum
compute_checksum(bytes) == Sum(bytes) % 256

\* Message.to_bytes
to_bytes(m) ==
    LET data   == IF m.data = None THEN 0 ELSE m.data[1]
        text   == <<"0", "1">> \o Format02X(SenderValue[sender(m.command)])
                  \o <<"0", "0">> \o Format02X(value(m.command))
                  \o Format02X(data)
        bytes_ == fromhex(text)
        last   == int_to_bytes(compute_checksum(bytes_.bytes))
    IN  IF bytes_.err # "none" THEN bytes_
        ELSE IF last.err # "none" THEN last
        ELSE [err |-> "none", bytes |-> bytes_.bytes \o last.bytes]

SenderBytes == {SenderValue[s] : s \in DOMAIN SenderValue}

\* _Sender(value)
SenderOf(v) == CHOOSE s \in DOMAIN SenderValue : SenderValue[s] = v

\* from_bytes without the comparison of the checksum.
from_bytes_NoChecksumCheck(bytes_) ==
    IF Len(bytes_) # MESSAGE_LENGTH
    THEN [err |-> "BadLength", message |-> NoMessage]
    ELSE IF bytes_[1] # 1
    THEN [err |-> "BadStartByte", message |-> NoMessage]
    ELSE IF bytes_[2] \notin SenderBytes
    THEN [err |-> "BadSender", message |-> NoMessage]
    ELSE LET resolved == from_byte(bytes_[4])
             cmd      == resolved.command
         IN  IF resolved.err # "none"
             THEN [err |-> "UnknownCode", message |-> NoMessage]
             ELSE IF data_type(cmd) = "None"
             THEN [err |-> "TypeError", message |-> NoMessage]
             ELSE IF SenderOf(bytes_[2]) # sender(cmd)
             THEN [err |-> "BadSender", message |-> NoMessage]
             ELSE MessageInit(cmd, Some(bytes_[5]))

\* Message.from_bytes, statement by statement.
from_bytes(bytes_) ==
    IF Len(bytes_) # MESSAGE_LENGTH
    THEN [err |-> "BadLength", message |-> NoMessage]
    ELSE IF bytes_[1] # 1
    THEN [err |-> "BadStartByte", message |-> NoMessage]
    ELSE IF bytes_[2] \notin SenderBytes            \* _Sender(bytes_[1]) raises
    THEN [err |-> "BadSender", message |-> NoMessage]
    ELSE LET resolved == from_byte(bytes_[4])
             cmd      == resolved.command
         IN  IF resolved.err # "none"
             THEN [err |-> "UnknownCode", message |-> NoMessage]
             ELSE IF data_type(cmd) = "None"        \* None(bytes_[4]) raises
             THEN [err |-> "TypeError", message |-> NoMessage]
             ELSE LET data              == Some(bytes_[5])
                      checksum          == bytes_[6]
                      computed_checksum == compute_checksum(SubSeq(bytes_, 1, Len(bytes_) - 1))
                  IN  IF checksum # computed_checksum
                      THEN [err |-> "BadChecksum", message |-> NoMessage]
                      ELSE IF SenderOf(bytes_[2]) # sender(cmd)
                      THEN [err |-> "BadSender", message |-> NoMessage]
                      ELSE MessageInit(cmd, data)

----------------------------------------------------------------------------
(* The calls on a Connection, as functions of their inputs *)

Result(e, m, r, b) == [err |-> e, message |-> m, response |-> r, bytes |-> b]

NoResult == Result("none", NoMessage, NoMessage, << >>)

\* Connection.send_command: the Message sent and the bytes handed to
\* serial.write, or the exception raised before the write.
send_command(c, d) ==
    IF ~is_user_command(c)
    THEN Result("NotAnOperatorCode", NoMessage, NoMessage, << >>)
    ELSE LET m == MessageInit(c, d)
         IN  IF m.err # "none"
             THEN Result(m.err, NoMessage, NoMessage, << >>)
             ELSE LET bytes_to_send == to_bytes(m.message)
                  IN  IF bytes_to_send.err # "none"
                      THEN Result(bytes_to_send.err, NoMessage, NoMessage, << >>)
                      ELSE Result("none", m.message, NoMessage, bytes_to_send.bytes)

\* read_response without its second length check.
read_response_NoTruncationCheck(bytes_) ==
    IF Len(bytes_) = 0
    THEN Result("NoResponse", NoMessage, NoMessage, bytes_)
    ELSE LET m == from_bytes(bytes_)
         IN  Result(m.err, NoMessage, m.message, bytes_)

\* Connection.read_response on the bytes serial.read(MESSAGE_LENGTH) gave.
read_response(bytes_) ==
    IF Len(bytes_) = 0
    THEN Result("NoResponse", NoMessage, NoMessage, bytes_)
    ELSE IF Len(bytes_) # MESSAGE_LENGTH
    THEN Result("Truncated", NoMessage, NoMessage, bytes_)
    ELSE LET m == from_bytes(bytes_)
         IN  Result(m.err, NoMessage, m.message, bytes_)

\* The loop condition with its comparison negated.
payout_continues_Negated(r) == r.command # "DISPENSING_BUSY"

\* The condition of a payout that does not poll.
payout_continues_NoLoop(r) == FALSE

\* The loop condition without its first comparison.
payout_continues_SuccessOnly(r) == r.command = "PAYOUT_SUCCESSFUL"

\* The condition of the while loop of Connection.payout.
payout_continues(r) ==
    \/ r.command = "DISPENSING_BUSY"
    \/ r.command = "PAYOUT_SUCCESSFUL"

\* self.serial.read(MESSAGE_LENGTH) on a receive buffer: at most 6 bytes
\* are taken from its front, the others stay in it.
serial_read(buffer) ==
    LET n == IF Len(buffer) < MESSAGE_LENGTH THEN Len(buffer) ELSE MESSAGE_LENGTH
    IN  [data |-> SubSeq(buffer, 1, n), rest |-> SubSeq(buffer, n + 1, Len(buffer))]

\* A log with one more entry.
Log(log, x) == IF history THEN Append(log, x) ELSE <<x>>

----------------------------------------------------------------------------
(* Inputs *)

\* The largest number of reads one payout is followed for.
MaxReads == 3

Frame(b0, b1, b2, b3, b4, off) ==
    LET body == <<b0, b1, b2, b3, b4>>
    IN  Append(body, (compute_checksum(body) + off) % 256)

StartByteInputs == {0, 1}

SenderByteInputs == {1, 16, 85}

ReservedByteInputs == {0, 7}

CodeByteInputs == {value(c) : c \in Codes} \cup {119, 255}

DatumByteInputs == {0, 3, 255}

ChecksumOffsets == {0, 1}

\* 6-byte strings: every combination of the bytes above.
Frames6 ==
    {Frame(b0, b1, b2, b3, b4, off) :
        b0 \in StartByteInputs, b1 \in SenderByteInputs,
        b2 \in ReservedByteInputs, b3 \in CodeByteInputs,
        b4 \in DatumByteInputs, off \in ChecksumOffsets}

\* The byte strings of the unit tests.
TestFrames ==
    {<<1, 16, 0, 16, 23, 56>>, <<0, 16, 0, 16, 23, 56>>,
     <<1, 16, 0, 16, 23, 51>>, <<1, 1, 0, 16, 23, 41>>,
     <<1, 16, 0, 170, 3, 190>>, <<1, 1, 0, 170, 3, 175>>}

ShortInputs == {SubSeq(f, 1, k) : f \in TestFrames, k \in 0 .. 5}

LongInputs == {Append(f, 1) : f \in TestFrames}

\* Arguments of Message._compute_checksum: those of the unit test, short
\* ones, and the first five bytes of every frame above.
ChecksumInputs ==
    {<<1, 1, 0, 187, 11>>, <<255, 255, 255, 255, 255>>, << >>, <<255>>, <<255, 1>>}
    \cup {SubSeq(f, 1, 5) : f \in Frames6}
    \cup LongInputs

\* Arguments of Message.from_bytes.
DecodeInputs == Frames6 \cup TestFrames \cup ShortInputs \cup LongInputs

\* What serial.read(6) can return to a lone read_response: at most 6 bytes.
RxInputs == Frames6 \cup TestFrames \cup ShortInputs

ReplyData == {0, 3}

\* What serial.read(6) returns during payout and status: every status
\* well framed, two operator frames echoed back, and damaged input.
MachineReplies ==
    {to_bytes(Msg(s, Some(d))).bytes : s \in Status, d \in ReplyData}
    \cup {to_bytes(Msg("SINGLE_MACHINE_PAYOUT", Some(5))).bytes,
          to_bytes(Msg("REQUEST_MACHINE_STATUS", None)).bytes}
    \cup {<< >>, <<1, 1, 0>>,
          Frame(1, 1, 0, 9, 0, 1),      \* bad checksum
          Frame(0, 1, 0, 9, 0, 0),      \* bad start byte
          Frame(1, 16, 0, 9, 0, 0),     \* status from the operator
          Frame(1, 1, 0, 119, 0, 0)}    \* unknown code

QuantityArgs == {None, Some(-1), Some(0), Some(5), Some(255), Some(256), Some(4096)}

----------------------------------------------------------------------------
(* The state machine *)

\* No call made yet: nothing written, nothing read.
Fresh ==
    /\ op = "none"
    /\ pc = "idle"
    /\ arg_command = NoCode
    /\ arg_data = None
    /\ arg_bytes = << >>
    /\ written = << >>
    /\ rxLog = << >>
    /\ command = NoMessage
    /\ response = NoMessage
    /\ result = NoResult

\* A connection just opened, its receive buffer empty.
Init ==
    /\ Fresh
    /\ pending = << >>
    /\ history = TRUE

\* No call has been made on the connection yet. Each behaviour follows one
\* call (or one chain Message, to_bytes, from_bytes) from start to end: a
\* Connection keeps nothing from one call to the next.
Idle == pc = "idle"

Outcome(r) == IF r.err = "none" THEN "returned" ELSE "raised"

\* Message(command_or_status, data)
CallMessage ==
    \E c \in Codes, d \in DataArgs :
        /\ Idle
        /\ op' = "Message"
        /\ arg_command' = c /\ arg_data' = d /\ arg_bytes' = << >>
        /\ LET m == MessageInit(c, d)
           IN  /\ result' = Result(m.err, m.message, NoMessage, << >>)
               /\ pc' = Outcome(m)
        /\ written' = << >> /\ rxLog' = << >>
        /\ command' = NoMessage /\ response' = NoMessage
        /\ UNCHANGED <<pending, history>>

\* message.to_bytes() on the Message just constructed.
CallToBytes ==
    /\ op = "Message" /\ pc = "returned"
    /\ op' = "to_bytes"
    /\ LET b == to_bytes(result.message)
       IN  /\ result' = Result(b.err, result.message, NoMessage, b.bytes)
           /\ pc' = Outcome(b)
    /\ UNCHANGED <<arg_command, arg_data, arg_bytes, written, rxLog, command, response,
                 pending, history>>

\* Message.from_bytes(bytes_) on a byte string of the caller.
CallFromBytes ==
    \E b \in DecodeInputs :
        /\ Idle
        /\ op' = "from_bytes"
        /\ arg_command' = NoCode /\ arg_data' = None /\ arg_bytes' = b
        /\ LET m == from_bytes(b)
           IN  /\ result' = Result(m.err, NoMessage, m.message, << >>)
               /\ pc' = Outcome(m)
        /\ written' = << >> /\ rxLog' = << >>
        /\ command' = NoMessage /\ response' = NoMessage
        /\ UNCHANGED <<pending, history>>

\* Message.from_bytes(message.to_bytes()): the bytes just encoded are
\* decoded; arg_command and arg_data still name the Message encoded.
CallFromBytesOfToBytes ==
    /\ op = "to_bytes" /\ pc = "returned"
    /\ op' = "from_bytes"
    /\ arg_bytes' = result.bytes
    /\ LET m == from_bytes(result.bytes)
       IN  /\ result' = Result(m.err, result.message, m.message, result.bytes)
           /\ pc' = Outcome(m)
    /\ UNCHANGED <<arg_command, arg_data, written, rxLog, command, response,
                 pending, history>>

\* message.to_bytes() on the Message from_bytes just returned for the
\* caller's bytes; arg_bytes still holds those bytes.
CallToBytesOfFromBytes ==
    /\ op = "from_bytes" /\ pc = "returned" /\ arg_command = NoCode
    /\ op' = "from_bytes_to_bytes"
    /\ LET b == to_bytes(result.response)
       IN  /\ result' = Result(b.err, NoMessage, result.response, b.bytes)
           /\ pc' = Outcome(b)
    /\ UNCHANGED <<arg_command, arg_data, arg_bytes, written, rxLog, command, response,
                 pending, history>>

\* Message._compute_checksum(bytes_)
CallComputeChecksum ==
    \E b \in ChecksumInputs :
        /\ Idle
        /\ op' = "compute_checksum"
        /\ arg_command' = NoCode /\ arg_data' = None /\ arg_bytes' = b
        /\ result' = Result("none", NoMessage, NoMessage, <<compute_checksum(b)>>)
        /\ pc' = "returned"
        /\ written' = << >> /\ rxLog' = << >>
        /\ command' = NoMessage /\ response' = NoMessage
        /\ UNCHANGED <<pending, history>>

\* _CommandOrStatus.from_byte(value); the member found is result.message.command.
CallFromByte ==
    \E v \in Byte :
        /\ Idle
        /\ op' = "from_byte"
        /\ arg_command' = NoCode /\ arg_data' = None /\ arg_bytes' = <<v>>
        /\ LET r == from_byte(v)
           IN  /\ result' = Result(r.err, Msg(r.command, None), NoMessage, << >>)
               /\ pc' = Outcome(r)
        /\ written' = << >> /\ rxLog' = << >>
        /\ command' = NoMessage /\ response' = NoMessage
        /\ UNCHANGED <<pending, history>>

\* connection.send_command(command, data)
CallSendCommand ==
    \E c \in Codes, d \in DataArgs :
        /\ Idle
        /\ op' = "send_command"
        /\ arg_command' = c /\ arg_data' = d /\ arg_bytes' = << >>
        /\ LET s == send_command(c, d)
           IN  /\ result' = s
               /\ pc' = Outcome(s)
               /\ written' = IF s.err = "none" THEN <<s.bytes>> ELSE << >>
        /\ rxLog' = << >>
        /\ command' = NoMessage /\ response' = NoMessage
        /\ UNCHANGED <<pending, history>>

\* connection.read_response()
CallReadResponse ==
    \E rx \in RxInputs :
        /\ Idle
        /\ op' = "read_response"
        /\ arg_command' = NoCode /\ arg_data' = None /\ arg_bytes' = << >>
        /\ LET io == serial_read(pending \o rx)
               r  == read_response(io.data)
           IN  /\ result' = r
               /\ pc' = Outcome(r)
               /\ rxLog' = <<io.data>>
               /\ pending' = io.rest
        /\ written' = << >>
        /\ command' = NoMessage /\ response' = NoMessage
        /\ UNCHANGED history

\* connection.payout(quantity), up to its first read.
PayoutSend ==
    \E q \in QuantityArgs :
        /\ Idle
        /\ op' = "payout"
        /\ arg_command' = NoCode /\ arg_data' = q /\ arg_bytes' = << >>
        /\ LET s == send_command("SINGLE_MACHINE_PAYOUT", q)
           IN  /\ command' = s.message
               /\ written' = IF s.err = "none" THEN <<s.bytes>> ELSE << >>
               /\ pc' = IF s.err = "none" THEN "read" ELSE "raised"
               /\ result' = IF s.err = "none" THEN NoResult ELSE s
        /\ rxLog' = << >>
        /\ response' = NoMessage
        /\ UNCHANGED <<pending, history>>

\* PayoutRead with a failed read caught and the loop entered again.
PayoutRead_FailureSwallowed ==
    \E rx \in MachineReplies :
        /\ op = "payout" /\ pc = "read"
        /\ LET io == serial_read(pending \o rx)
               r  == read_response(io.data)
           IN  /\ rxLog' = Log(rxLog, io.data)
               /\ pending' = io.rest
               /\ response' = IF r.err = "none" THEN r.response
                               ELSE Msg("DISPENSING_BUSY", Some(0))
               /\ pc' = "check"
               /\ result' = result
        /\ UNCHANGED <<op, arg_command, arg_data, arg_bytes, written, command, history>>

\* response = self.read_response() in payout, before and inside the loop.
PayoutRead ==
    \E rx \in MachineReplies :
        /\ op = "payout" /\ pc = "read"
        /\ LET io == serial_read(pending \o rx)
               r  == read_response(io.data)
           IN  /\ rxLog' = Log(rxLog, io.data)
               /\ pending' = io.rest
               /\ response' = r.response
               /\ pc' = IF r.err = "none" THEN "check" ELSE "raised"
               /\ result' = IF r.err = "none" THEN result
                            ELSE Result(r.err, NoMessage, NoMessage, << >>)
        /\ UNCHANGED <<op, arg_command, arg_data, arg_bytes, written, command, history>>

\* PayoutPoll for a loop body without its read_response: the condition is
\* tested again on the same response.
PayoutPoll_WithoutRead ==
    /\ op = "payout" /\ pc = "check"
    /\ payout_continues(response)
    /\ history => Len(written) < MaxReads
    /\ LET s == send_command("REQUEST_MACHINE_STATUS", None)
       IN  /\ written' = IF s.err = "none" THEN Log(written, s.bytes) ELSE written
           /\ pc' = IF s.err = "none" THEN "check" ELSE "raised"
           /\ result' = IF s.err = "none" THEN result ELSE s
    /\ UNCHANGED <<op, arg_command, arg_data, arg_bytes, rxLog, command, response,
                 pending, history>>

\* The loop condition holds: self.send_command(REQUEST_MACHINE_STATUS).
PayoutPoll ==
    /\ op = "payout" /\ pc = "check"
    /\ payout_continues(response)
    /\ history => Len(rxLog) < MaxReads
    /\ LET s == send_command("REQUEST_MACHINE_STATUS", None)
       IN  /\ written' = IF s.err = "none" THEN Log(written, s.bytes) ELSE written
           /\ pc' = IF s.err = "none" THEN "read" ELSE "raised"
           /\ result' = IF s.err = "none" THEN result ELSE s
    /\ UNCHANGED <<op, arg_command, arg_data, arg_bytes, rxLog, command, response,
                 pending, history>>

\* The loop condition fails: return command, response.
PayoutReturn ==
    /\ op = "payout" /\ pc = "check"
    /\ ~payout_continues(response)
    /\ result' = Result("none", command, response, << >>)
    /\ pc' = "returned"
    /\ UNCHANGED <<op, arg_command, arg_data, arg_bytes, written, rxLog, command, response,
                 pending, history>>

\* connection.status(), up to its read.
StatusSend ==
    /\ Idle
    /\ op' = "status"
    /\ arg_command' = NoCode /\ arg_data' = None /\ arg_bytes' = << >>
    /\ LET s == send_command("REQUEST_MACHINE_STATUS", None)
       IN  /\ command' = s.message
           /\ written' = IF s.err = "none" THEN <<s.bytes>> ELSE << >>
           /\ pc' = IF s.err = "none" THEN "read" ELSE "raised"
           /\ result' = IF s.err = "none" THEN NoResult ELSE s
    /\ rxLog' = << >>
    /\ response' = NoMessage
    /\ UNCHANGED <<pending, history>>

\* StatusRead with the loop of payout: a busy machine is asked again.
StatusRead_PollsOnBusy ==
    \E rx \in MachineReplies :
        /\ op = "status" /\ pc = "read"
        /\ Len(rxLog) < MaxReads
        /\ LET io == serial_read(pending \o rx)
               r  == read_response(io.data)
               busy == r.err = "none" /\ r.response.command = "DISPENSING_BUSY"
           IN  /\ rxLog' = Log(rxLog, io.data)
               /\ pending' = io.rest
               /\ response' = r.response
               /\ written' = IF busy
                             THEN Log(written, send_command("REQUEST_MACHINE_STATUS", None).bytes)
                             ELSE written
               /\ pc' = IF busy THEN "read" ELSE Outcome(r)
               /\ result' = IF busy THEN result
                            ELSE IF r.err = "none"
                            THEN Result("none", command, r.response, << >>)
                            ELSE Result(r.err, NoMessage, NoMessage, << >>)
        /\ UNCHANGED <<op, arg_command, arg_data, arg_bytes, command, history>>

\* response = self.read_response(); return command, response in status.
StatusRead ==
    \E rx \in MachineReplies :
        /\ op = "status" /\ pc = "read"
        /\ LET io == serial_read(pending \o rx)
               r  == read_response(io.data)
           IN  /\ rxLog' = Log(rxLog, io.data)
               /\ pending' = io.rest
               /\ response' = r.response
               /\ pc' = Outcome(r)
               /\ result' = IF r.err = "none"
                            THEN Result("none", command, r.response, << >>)
                            ELSE Result(r.err, NoMessage, NoMessage, << >>)
        /\ UNCHANGED <<op, arg_command, arg_data, arg_bytes, written, command, history>>

\* reset_dispenser followed by a read of the machine's answer.
ResetDispenser_WaitsForResponse ==
    \E rx \in MachineReplies :
        /\ Idle
        /\ op' = "reset_dispenser"
        /\ arg_command' = NoCode /\ arg_data' = None /\ arg_bytes' = << >>
        /\ LET s  == send_command("RESET_DISPENSER", None)
               io == serial_read(pending \o rx)
           IN  /\ result' = s
               /\ pc' = Outcome(s)
               /\ written' = IF s.err = "none" THEN <<s.bytes>> ELSE << >>
               /\ rxLog' = <<io.data>>
               /\ pending' = io.rest
        /\ command' = NoMessage /\ response' = NoMessage
        /\ UNCHANGED history

\* connection.reset_dispenser()
ResetDispenser ==
    /\ Idle
    /\ op' = "reset_dispenser"
    /\ arg_command' = NoCode /\ arg_data' = None /\ arg_bytes' = << >>
    /\ LET s == send_command("RESET_DISPENSER", None)
       IN  /\ result' = s
           /\ pc' = Outcome(s)
           /\ written' = IF s.err = "none" THEN <<s.bytes>> ELSE << >>
    /\ rxLog' = << >>
    /\ command' = NoMessage /\ response' = NoMessage
    /\ UNCHANGED <<pending, history>>

Next ==
    \/ CallMessage
    \/ CallToBytes
    \/ CallFromBytes
    \/ CallFromBytesOfToBytes
    \/ CallToBytesOfFromBytes
    \/ CallComputeChecksum
    \/ CallFromByte
    \/ CallSendCommand
    \/ CallReadResponse
    \/ PayoutSend
    \/ PayoutRead
    \/ PayoutPoll
    \/ PayoutReturn
    \/ StatusSend
    \/ StatusRead
    \/ ResetDispenser

Spec == Init /\ [][Next]_vars

----------------------------------------------------------------------------
(* Calls on a connection whose receive buffer already holds bytes *)

\* Receive buffers at the time of the call: empty, part of a frame, a
\* frame, a frame and the start of the next.
PendingInputs ==
    {<< >>, <<1, 1, 0>>, <<1, 1, 0, 0, 0, 2>>, <<1, 1, 0, 9, 0, 11, 1, 1, 0>>}

InitPending ==
    /\ Fresh
    /\ pending \in PendingInputs
    /\ history = TRUE

NextPending ==
    \/ ResetDispenser
    \/ StatusSend
    \/ StatusRead
    \/ CallReadResponse

SpecPending == InitPending /\ [][NextPending]_vars

----------------------------------------------------------------------------
(* A payout followed without end *)

\* written and rxLog keep their last entry only, and the polls are not
\* counted, so that a payout can be followed for as long as it polls.
InitLive ==
    /\ Fresh
    /\ pending = << >>
    /\ history = FALSE

NextLive ==
    \/ PayoutSend
    \/ PayoutRead
    \/ PayoutPoll
    \/ PayoutReturn

\* payout runs on the caller's thread, one statement after the other, and
\* serial.read returns when its timeout elapses at the latest: a payout
\* that can take its next step takes it.
LiveSpec ==
    /\ InitLive /\ [][NextLive]_vars
    /\ WF_vars(PayoutRead)
    /\ WF_vars(PayoutPoll)
    /\ WF_vars(PayoutReturn)

----------------------------------------------------------------------------
(* The wire format and the arities, as the protocol states them *)

\* Codes that carry no datum; every other code carries one byte.
NoDatumCodes == {"REQUEST_MACHINE_STATUS", "RESET_DISPENSER"}

\* The datum matches the code's arity.
ArityMatches(c, d) ==
    IF c \in NoDatumCodes THEN d = None
    ELSE d # None /\ d[1] \in Byte

\* The sender byte of a code's family.
FamilySenderByte(c) == IF c \in Command THEN 16 ELSE 1

RegisteredCodeBytes == {CommandValue[c] : c \in Command} \cup {StatusValue[s] : s \in Status}

FamilySenderByteOfValue(v) ==
    IF \E c \in Command : CommandValue[c] = v THEN 16 ELSE 1

\* b is a well-formed frame from the machine carrying status s.
WellFormedStatusFrame(b, s) ==
    /\ Len(b) = 6
    /\ b[1] = 1 /\ b[2] = 1 /\ b[3] = 0
    /\ b[4] = StatusValue[s]
    /\ b[5] \in Byte
    /\ b[6] = (b[1] + b[2] + b[3] + b[4] + b[5]) % 256

\* The frame of RequestMachineStatus.
RequestMachineStatusFrame == <<1, 16, 0, 17, 0, 34>>

\* The writes of a payout that has made n reads and not polled after the
\* last of them: one SingleMachinePayout frame, then n - 1 status requests.
PayoutWrites(n) ==
    /\ Len(written) = n
    /\ written[1] = to_bytes(Msg("SINGLE_MACHINE_PAYOUT", arg_data)).bytes
    /\ \A k \in 2 .. n : written[k] = RequestMachineStatusFrame

\* payout has returned (sent, final), final decoded from its last read.
PayoutReturned(s) ==
    /\ pc = "returned"
    /\ result = Result("none", Msg("SINGLE_MACHINE_PAYOUT", arg_data),
                       Msg(s, Some(rxLog[Len(rxLog)][5])), << >>)

----------------------------------------------------------------------------
(* C1 *)

----------------------------------------------------------------------------
(* C2 *)

\* A read of a payout fails: fewer than 6 bytes, or a frame decode rejects.
ReadFails(b) == Len(b) < 6 \/ from_bytes(b).err # "none"

\* C2: when a read of a payout fails, at the first read or at any poll,
\* it is the last read, payout has raised that failure, no write follows
\* it (the writes number the reads), no (sent, final) pair is returned and
\* nothing more happens.
C2_ReadFailureAbortsPayout ==
    \A k \in 1 .. Len(rxLog) :
        (op = "payout" /\ ReadFails(rxLog[k]))
        => /\ k = Len(rxLog)
           /\ pc = "raised"
           /\ result.err = read_response(rxLog[k]).err
           /\ result.message = NoMessage /\ result.response = NoMessage
           /\ Len(written) = k
           /\ ~ENABLED Next

\* A payout has stopped at its second read, on a bad checksum.
C2_Witness ==
    /\ op = "payout" /\ pc = "raised"
    /\ Len(rxLog) = 2 /\ Len(written) = 2
    /\ result.err = "BadChecksum"

----------------------------------------------------------------------------
(* C3 *)

\* C3: for every code and every datum its arity allows, decoding the
\* encoding of Message(code, datum) succeeds and gives Message(code, datum).
C3_RoundTrip ==
    ( /\ op = "from_bytes"
      /\ arg_command \in Codes
      /\ ArityMatches(arg_command, arg_data) )
    => /\ pc = "returned"
       /\ result.response = Msg(arg_command, arg_data)

----------------------------------------------------------------------------
(* C4 *)

\* C4: to_bytes of a Message whose construction succeeded, whatever
\* integer its datum, does not fail and returns exactly 6 bytes.
C4_EncodeNeverFails ==
    op = "to_bytes" => (pc = "returned" /\ Len(result.bytes) = 6)

----------------------------------------------------------------------------
(* C5 *)

\* The failure the stated order of checks reports: length, start byte,
\* code resolution, checksum, sender.
FirstFailure(b) ==
    IF Len(b) # 6 THEN "BadLength"
    ELSE IF b[1] # 1 THEN "BadStartByte"
    ELSE IF b[4] \notin RegisteredCodeBytes THEN "UnknownCode"
    ELSE IF b[6] # (b[1] + b[2] + b[3] + b[4] + b[5]) % 256 THEN "BadChecksum"
    ELSE IF b[2] # FamilySenderByteOfValue(b[4]) THEN "BadSender"
    ELSE "none"

\* C5: from_bytes reports the first failing check of the order length,
\* start byte, code resolution, checksum, sender, and fails in no other way.
C5_CheckOrder ==
    (op = "from_bytes" /\ arg_command = NoCode)
    => result.err = FirstFailure(arg_bytes)

----------------------------------------------------------------------------
(* C6 *)

\* C6: a 6-byte frame with start byte 0x01, a registered code and a correct
\* checksum whose sender byte is not that of the code's family makes
\* from_bytes fail with BadSender.
C6_CrossWiredIsBadSender ==
    ( /\ op = "from_bytes" /\ arg_command = NoCode
      /\ Len(arg_bytes) = 6
      /\ arg_bytes[1] = 1
      /\ arg_bytes[4] \in RegisteredCodeBytes
      /\ arg_bytes[6] = (arg_bytes[1] + arg_bytes[2] + arg_bytes[3]
                         + arg_bytes[4] + arg_bytes[5]) % 256
      /\ arg_bytes[2] # FamilySenderByteOfValue(arg_bytes[4]) )
    => (pc = "raised" /\ result.err = "BadSender")

----------------------------------------------------------------------------
(* C7 *)

\* C7: send_command with a Status code raises NotAnOperatorCode and writes
\* nothing; with a Command code and a datum matching its arity it makes one
\* write, of the 6 bytes to_bytes gives for Message(code, datum), and
\* returns that Message.
C7_SendCommand ==
    op = "send_command"
    => /\ arg_command \in Status
          => /\ pc = "raised"
             /\ result.err = "NotAnOperatorCode"
             /\ written = << >>
       /\ (arg_command \in Command /\ ArityMatches(arg_command, arg_data))
          => /\ pc = "returned"
             /\ written = <<to_bytes(Msg(arg_command, arg_data)).bytes>>
             /\ Len(written[1]) = 6
             /\ result.message = Msg(arg_command, arg_data)

\* send_command(Status.PAYOUT_SUCCESSFUL, 3) has raised.
C7_Witness ==
    /\ op = "send_command" /\ pc = "raised"
    /\ arg_command = "PAYOUT_SUCCESSFUL" /\ arg_data = Some(3)
    /\ result.err = "NotAnOperatorCode"

----------------------------------------------------------------------------
(* C8 *)

DecodeErrors == {"BadLength", "BadStartByte", "UnknownCode", "BadChecksum",
                 "BadSender", "TypeError"}

\* C8: read_response makes one read; it raises NoResponse exactly when the
\* read gave no byte and Truncated exactly when it gave 1 to 5 bytes,
\* neither being a failure of from_bytes; when 6 bytes were read its
\* outcome is that of from_bytes on them.
C8_ReadResponse ==
    op = "read_response"
    => /\ Len(rxLog) = 1
       /\ written = << >>
       /\ LET b == rxLog[1]
          IN  /\ result.err = "NoResponse" <=> Len(b) = 0
              /\ result.err = "Truncated" <=> Len(b) \in 1 .. 5
              /\ Len(b) < 6 => result.err \notin DecodeErrors
              /\ Len(b) = 6
                 => /\ result.err = from_bytes(b).err
                    /\ result.response = from_bytes(b).message

\* read_response has raised Truncated on 3 bytes.
C8_Witness ==
    /\ op = "read_response" /\ pc = "raised"
    /\ Len(rxLog[1]) = 3
    /\ result.err = "Truncated"

----------------------------------------------------------------------------
(* C9 *)

\* C9: Message(code, datum) raises DataArityMismatch exactly when a code
\* carrying one byte is given no datum or a code carrying none is given
\* one; otherwise, the datum being a byte, it is constructed.
C9_Construction ==
    op = "Message"
    => LET mismatch == \/ arg_command \notin NoDatumCodes /\ arg_data = None
                       \/ arg_command \in NoDatumCodes /\ arg_data # None
       IN  /\ pc = "raised" <=> mismatch
           /\ pc = "raised" => result.err = "DataArityMismatch"
           /\ (~mismatch /\ ArityMatches(arg_command, arg_data))
              => (pc = "returned" /\ result.message = Msg(arg_command, arg_data))

\* Message(Command.RESET_DISPENSER, 3) has raised.
C9_Witness ==
    /\ op = "Message" /\ pc = "raised"
    /\ arg_command = "RESET_DISPENSER" /\ arg_data = Some(3)

----------------------------------------------------------------------------
(* C10 *)

\* C10: to_bytes of a well-formed Message (code, datum) is
\* [0x01, s, 0x00, c, d, k]: s is 0x10 for a Command and 0x01 for a Status,
\* c the code's value, d the datum or 0, k their sum with 0x01 modulo 256.
C10_EncodeLayout ==
    (op = "to_bytes" /\ ArityMatches(arg_command, arg_data))
    => LET s == FamilySenderByte(arg_command)
           c == value(arg_command)
           d == IF arg_data = None THEN 0 ELSE arg_data[1]
       IN  /\ pc = "returned"
           /\ result.bytes = <<1, s, 0, c, d, (1 + s + 0 + c + d) % 256>>

\* Message(SINGLE_MACHINE_PAYOUT, 23).to_bytes() gave 01 10 00 10 17 38.
C10_Witness ==
    /\ op = "to_bytes" /\ pc = "returned"
    /\ arg_command = "SINGLE_MACHINE_PAYOUT" /\ arg_data = Some(23)
    /\ result.bytes = <<1, 16, 0, 16, 23, 56>>

----------------------------------------------------------------------------
(* C11 *)

\* C11: status makes one write, of the RequestMachineStatus frame, then one
\* read, and returns (sent, received) without polling, whatever status the
\* read carries, Busy included.
C11_StatusIsOneRoundTrip ==
    op = "status"
    => /\ written = <<RequestMachineStatusFrame>>
       /\ pc \in {"read", "returned", "raised"}
       /\ pc = "read" => rxLog = << >>
       /\ pc # "read" => (Len(rxLog) = 1 /\ ~ENABLED Next)
       /\ \A s \in Status :
             (rxLog # << >> /\ WellFormedStatusFrame(rxLog[1], s))
             => /\ pc = "returned"
                /\ result = Result("none", Msg("REQUEST_MACHINE_STATUS", None),
                                   Msg(s, Some(rxLog[1][5])), << >>)

\* status has returned a Busy message after one write and one read.
C11_Witness ==
    /\ op = "status" /\ pc = "returned"
    /\ Len(written) = 1 /\ Len(rxLog) = 1
    /\ result.response.command = "DISPENSING_BUSY"

----------------------------------------------------------------------------
(* C12 *)

\* C12: reset_dispenser makes one write, of the frame of
\* Message(ResetDispenser), makes no read, leaves the bytes waiting in the
\* receive buffer where they are and returns the Message sent; nothing
\* follows it.
C12_ResetDispenser ==
    [][ /\ op' = "reset_dispenser"
           => /\ pc' = "returned"
              /\ written' = << <<1, 16, 0, 18, 0, 35>> >>
              /\ rxLog' = << >>
              /\ pending' = pending
              /\ result'.err = "none"
              /\ result'.message = Msg("RESET_DISPENSER", None)
        /\ op # "reset_dispenser" ]_vars

\* reset_dispenser has returned with a frame still waiting unread.
C12_Witness ==
    /\ op = "reset_dispenser" /\ pc = "returned"
    /\ pending = <<1, 1, 0, 0, 0, 2>>
    /\ rxLog = << >> /\ Len(written) = 1

----------------------------------------------------------------------------
(* C13 *)

RECURSIVE SumUpTo(_, _)
\* b[1] + ... + b[k], added from the last term down.
SumUpTo(b, k) == IF k = 0 THEN 0 ELSE SumUpTo(b, k - 1) + b[k]

\* C13: the checksum is a byte congruent modulo 256 to the sum of the input
\* bytes; it is 0xC8 for 01 01 00 BB 0B and 0xFB for FF FF FF FF FF.
C13_Checksum ==
    op = "compute_checksum"
    => LET r == result.bytes[1]
       IN  /\ r \in 0 .. 255
           /\ \E q \in 0 .. Len(arg_bytes) :
                 SumUpTo(arg_bytes, Len(arg_bytes)) = 256 * q + r
           /\ arg_bytes = <<1, 1, 0, 187, 11>> => r = 200
           /\ arg_bytes = <<255, 255, 255, 255, 255>> => r = 251

\* The checksum of FF FF FF FF FF has been computed: 0xFB.
C13_Witness ==
    /\ op = "compute_checksum"
    /\ arg_bytes = <<255, 255, 255, 255, 255>>
    /\ result.bytes = <<251>>

----------------------------------------------------------------------------
(* C14 *)

CommandCodeValues == 16 .. 19

StatusCodeValues == {170, 187} \cup (0 .. 12)

\* C14: the values of the Commands are 0x10..0x13, those of the Statuses
\* 0xAA, 0xBB and 0x00..0x0C, and no value is both; from_byte of a byte
\* gives the Command of that value if there is one, else the Status of that
\* value if there is one, else fails with UnknownCode; from_byte of the
\* value of a code gives that code.
C14_Resolve ==
    /\ {CommandValue[c] : c \in Command} = CommandCodeValues
    /\ {StatusValue[s] : s \in Status} = StatusCodeValues
    /\ CommandCodeValues \cap StatusCodeValues = {}
    /\ op = "from_byte"
       => LET v == arg_bytes[1]
              c == result.message.command
          IN  /\ v \in CommandCodeValues
                 => (pc = "returned" /\ c \in Command /\ CommandValue[c] = v)
              /\ v \in StatusCodeValues
                 => (pc = "returned" /\ c \in Status /\ StatusValue[c] = v)
              /\ v \notin CommandCodeValues \cup StatusCodeValues
                 => (pc = "raised" /\ result.err = "UnknownCode")
              /\ \A code \in Codes : value(code) = v => c = code

\* from_byte(0x09) has returned Status.DISPENSING_BUSY.
C14_Witness ==
    /\ op = "from_byte" /\ pc = "returned"
    /\ arg_bytes = <<9>>
    /\ result.message.command = "DISPENSING_BUSY"

----------------------------------------------------------------------------
(* C17 *)

\* C17 as claimed: whenever from_bytes accepts a frame, to_bytes of the
\* Message it returned gives the frame back; a 6-byte frame whose reserved
\* byte is not 0x00 is rejected.
C17_AcceptedFramesAreCanonical ==
    /\ op = "from_bytes_to_bytes"
       => (pc = "returned" /\ result.bytes = arg_bytes)
    /\ (op = "from_bytes" /\ arg_command = NoCode
        /\ Len(arg_bytes) = 6 /\ arg_bytes[3] # 0)
       => pc = "raised"

\* C17 as amended: whenever from_bytes accepts a frame whose reserved byte
\* is 0x00, to_bytes of the Message it returned gives the frame back; the
\* reserved byte is not checked, and an accepted frame with another
\* reserved byte is given back with 0x00 in its place and the checksum of
\* that.
C17_AcceptedFramesWithZeroReservedAreCanonical ==
    op = "from_bytes_to_bytes"
    => /\ pc = "returned"
       /\ arg_bytes[3] = 0 => result.bytes = arg_bytes
       /\ arg_bytes[3] # 0
          => result.bytes = <<arg_bytes[1], arg_bytes[2], 0, arg_bytes[4], arg_bytes[5],
                              (arg_bytes[6] + 256 - arg_bytes[3]) % 256>>

\* 01 01 00 AA 03 AF has been decoded and encoded back to itself.
C17_Witness ==
    /\ op = "from_bytes_to_bytes" /\ pc = "returned"
    /\ arg_bytes = <<1, 1, 0, 170, 3, 175>>
    /\ result.bytes = arg_bytes

----------------------------------------------------------------------------
(* C16 *)

\* C16: in payout and in status the writes and the reads alternate, a write
\* first: the writes made less the reads made is 1 while a read is due and
\* 0 otherwise, so a poll is written only once the read before it has
\* returned, and a payout that returns has ended with a read.
C16_WritesAndReadsAlternate ==
    op \in {"payout", "status"}
    => LET unanswered == Len(written) - Len(rxLog)
       IN  /\ unanswered \in {0, 1}
           /\ pc = "read" => unanswered = 1
           /\ pc \in {"check", "returned", "raised"} => unanswered = 0
           /\ pc = "returned" => Len(rxLog) >= 1

\* A payout has returned after three writes and three reads.
C16_Witness ==
    /\ op = "payout" /\ pc = "returned"
    /\ Len(written) = 3 /\ Len(rxLog) = 3
    /\ result.response.command = "EMPTY_NOTE"

----------------------------------------------------------------------------
(* C18 *)

\* What payout returns, but for the family of the final code: sent is the
\* Message (SingleMachinePayout, quantity), written first, and final is the
\* code and datum of the last read.
PayoutReturnsSentAndLastRead ==
    LET last == rxLog[Len(rxLog)]
    IN  /\ result.err = "none"
        /\ result.message = Msg("SINGLE_MACHINE_PAYOUT", arg_data)
        /\ written[1] = to_bytes(Msg("SINGLE_MACHINE_PAYOUT", arg_data)).bytes
        /\ Len(last) = 6
        /\ result.response.command \in Codes
        /\ value(result.response.command) = last[4]
        /\ result.response.data = Some(last[5])

----------------------------------------------------------------------------
(* C19 *)

\* C19: a send_command that fails has written nothing, and payout with a
\* quantity that is absent or not a byte makes no write and no read.
C19_FailedSendWritesNothing ==
    /\ (op = "send_command" /\ pc = "raised") => written = << >>
    /\ (op = "payout" /\ (arg_data = None \/ arg_data[1] \notin Byte))
       => (pc = "raised" /\ written = << >> /\ rxLog = << >>)

----------------------------------------------------------------------------
(* C20 *)

ReceiveErrors == {"NoResponse", "Truncated", "BadLength", "BadStartByte",
                  "UnknownCode", "BadChecksum", "BadSender"}

\* C20: read_response either returns the code and datum carried by a 6-byte
\* frame with start byte 0x01, the sender byte of its code and a matching
\* checksum, or fails with NoResponse, Truncated, BadLength, BadStartByte,
\* UnknownCode, BadChecksum or BadSender, and in no other way.
C20_ReceiveFailsWithinTaxonomy ==
    op = "read_response"
    => LET b == rxLog[1]
       IN  \/ /\ pc = "returned"
              /\ Len(b) = 6
              /\ b[1] = 1
              /\ b[4] \in RegisteredCodeBytes
              /\ b[2] = FamilySenderByteOfValue(b[4])
              /\ b[6] = (b[1] + b[2] + b[3] + b[4] + b[5]) % 256
              /\ value(result.response.command) = b[4]
              /\ result.response.data = Some(b[5])
           \/ /\ pc = "raised"
              /\ result.err \in ReceiveErrors

----------------------------------------------------------------------------
(* C15 *)

\* The read payout made last.
LastRead == rxLog[Len(rxLog)]

\* The last read of the payout failed.
LastReadFailed == op = "payout" /\ rxLog # << >> /\ ReadFails(LastRead)

\* The last read of the payout gave a well-formed frame with a status of S.
LastReadStatusIn(S) ==
    /\ op = "payout" /\ rxLog # << >>
    /\ \E s \in S : WellFormedStatusFrame(LastRead, s)

PayoutOver == op = "payout" /\ pc \in {"returned", "raised"}

\* Against a transport that answers Busy to every read, a payout that got
\* to its first read never ends and writes RequestMachineStatus again and
\* again.
BusyForeverIsPolledForever ==
    ( /\ [](op = "payout" /\ rxLog # << >> => LastReadStatusIn({"DISPENSING_BUSY"}))
      /\ <>(op = "payout" /\ pc = "read") )
    => /\ [](~PayoutOver)
       /\ []<><<PayoutPoll>>_vars

====
